---------------------------- MODULE Spec2Model ----------------------------
(***************************************************************************)
(* Loan evaluation engine (src/prolog_engine.py) and the part of its web   *)
(* host (src/app.py) that boots it.                                        *)
(*                                                                         *)
(* Conventions of the model:                                               *)
(*  - amounts are integers; a ratio (dti, lti) is the exact fraction       *)
(*    <<numerator, denominator>> with denominator > 0, so a comparison     *)
(*    `dti < 15` is num < 15 * den;                                        *)
(*  - a value rounded to two decimals is an integer number of hundredths;  *)
(*  - a Python str that the code slices or strips is a sequence of         *)
(*    one-character strings; the fixed messages are TLA+ strings;          *)
(*  - the external Prolog backend is the environment: each query's outcome *)
(*    (raises, no solution, a solution and its bindings) is chosen by \E.  *)
(***************************************************************************)
EXTENDS Integers, Sequences, FiniteSets, TLC

VARIABLES
    phase,          \* "boot": src/app.py is being imported; "serving": requests
    prolog_engine,  \* module global _prolog_engine: "None" | "PrologEngine"
    initialized,    \* PrologEngine._initialized
    prolog,         \* PrologEngine.prolog is not None (a pyswip Prolog handle)
    req,            \* the application profile the caller submits
    last,           \* the last call: its name, what the backend did, what it returned
    pc,             \* per concurrent caller: where it is in a module-level function
    created,        \* the callers that executed `_prolog_engine = PrologEngine()`, in order
    attempted,      \* the callers that executed `_prolog_engine.initialize('')`, in order
    users,          \* table users: id -> row, for the ids in use
    session,        \* per browser: the Flask session cookie
    applications,   \* table loan_applications, in insertion order
    history         \* table evaluation_history, in insertion order

threadvars == <<pc, created, attempted>>
webvars == <<users, session, applications, history>>
vars == <<phase, prolog_engine, initialized, prolog, req, last, threadvars, webvars>>

\* The value of `last`: the call `op`, the outcome `be` of its backend query,
\* the loan_purpose it was given and what it returned
Call(op, be, loan_purpose, ret) ==
    [op |-> op, be |-> be, purpose |-> loan_purpose, ret |-> ret]

---------------------------------------------------------------------------
(* Bounds of the model *)

\* employment_years ranges over -1 .. MaxEmploymentYears
MaxEmploymentYears == 3

\* The number of concurrent callers of the module-level functions
NumCallers == 2

\* At most this many rows of table users at a time
MaxUsers == 2

\* At most this many successful loan applications in one behaviour
MaxApplications == 2

\* loan_purpose ranges over the strings of at most this many characters
MaxPurposeLen == 2

---------------------------------------------------------------------------
(* Python str operations used by the code, on sequences of characters *)

\* str.startswith
StartsWith(s, p) == Len(s) >= Len(p) /\ SubSeq(s, 1, Len(p)) = p

\* s[6:-1]: from index 6 (0-based) up to, not including, the last character
Slice6ToLast(s) == SubSeq(s, 7, Len(s) - 1)

RECURSIVE LStrip(_, _)
LStrip(s, chars) ==
    IF s # <<>> /\ Head(s) \in chars THEN LStrip(Tail(s), chars) ELSE s

RECURSIVE RStrip(_, _)
RStrip(s, chars) ==
    IF s # <<>> /\ s[Len(s)] \in chars
    THEN RStrip(SubSeq(s, 1, Len(s) - 1), chars)
    ELSE s

\* str.strip(): whitespace off both ends
Strip(s) == RStrip(LStrip(s, {" "}), {" "})

\* str.strip("'")
StripQuote(s) == RStrip(LStrip(s, {"'"}), {"'"})

\* str.split(','): always at least one (possibly empty) piece
RECURSIVE SplitAcc(_, _, _)
SplitAcc(s, cur, acc) ==
    IF s = <<>> THEN Append(acc, cur)
    ELSE IF Head(s) = "," THEN SplitAcc(Tail(s), <<>>, Append(acc, cur))
    ELSE SplitAcc(Tail(s), Append(cur, Head(s)), acc)

SplitComma(s) == SplitAcc(s, <<>>, <<>>)

\* [f(x) for x in xs if p(x)] of line 214
RECURSIVE CleanErrors(_)
CleanErrors(xs) ==
    IF xs = <<>> THEN <<>>
    ELSE IF Strip(Head(xs)) # <<>>
         THEN <<StripQuote(Strip(Head(xs)))>> \o CleanErrors(Tail(xs))
         ELSE CleanErrors(Tail(xs))

\* dict.get(key, default) on a solution (a function from the bound names)
Get(sol, key, default) == IF key \in DOMAIN sol THEN sol[key] ELSE default

---------------------------------------------------------------------------
(* Arithmetic *)

\* round(x, 2) of the fraction r, in hundredths (ties to even)
Round2(r) ==
    LET n == r[1] * 100
        d == r[2]
        q == n \div d
        m == n % d
    IN  IF 2 * m < d THEN q
        ELSE IF 2 * m > d THEN q + 1
        ELSE IF q % 2 = 0 THEN q ELSE q + 1

RatioOrNonZero(amount, annual_income, sentinel) ==
    IF annual_income > 0 THEN <<amount * 100, annual_income>>
    ELSE IF annual_income < 0 THEN <<(0 - amount) * 100, 0 - annual_income>>
    ELSE <<sentinel, 1>>

RatioOrZero(amount, annual_income, sentinel) ==
    IF annual_income > 0 THEN <<amount * 100, annual_income>> ELSE <<0, 1>>

\* (amount / annual_income) * 100 if annual_income > 0 else sentinel
RatioOr(amount, annual_income, sentinel) ==
    IF annual_income > 0 THEN <<amount * 100, annual_income>> ELSE <<sentinel, 1>>

RLt(r, k) == r[1] < k * r[2]
RGt(r, k) == r[1] > k * r[2]

---------------------------------------------------------------------------
(* Categorizers *)

GetCreditCategoryOffByOne(score) ==
    IF score > 750 THEN "high"
    ELSE IF score > 650 THEN "medium"
    ELSE "low"

\* PrologEngine._get_credit_category
GetCreditCategory(score) ==
    IF score >= 750 THEN "high"
    ELSE IF score >= 650 THEN "medium"
    ELSE "low"

GetDtiCategoryInclusive(dti) ==
    IF ~RGt(dti, 15) THEN "excellent"
    ELSE IF ~RGt(dti, 30) THEN "good"
    ELSE IF ~RGt(dti, 43) THEN "moderate"
    ELSE "poor"

GetDtiCategoryWrongThreshold(dti) ==
    IF RLt(dti, 15) THEN "excellent"
    ELSE IF RLt(dti, 30) THEN "good"
    ELSE IF RLt(dti, 40) THEN "moderate"
    ELSE "poor"

\* PrologEngine._get_dti_category
GetDtiCategory(dti) ==
    IF RLt(dti, 15) THEN "excellent"
    ELSE IF RLt(dti, 30) THEN "good"
    ELSE IF RLt(dti, 43) THEN "moderate"
    ELSE "poor"

---------------------------------------------------------------------------
(* Built-in decision cascade *)

Verdict(result, explanation, confidence) ==
    [result |-> result, explanation |-> explanation, confidence |-> confidence]

\* The ordered rule cascade of PrologEngine._evaluate_fallback
Cascade(credit, dtic, lti, employment_years) ==
    IF credit = "high" /\ dtic \in {"excellent", "good"} /\ employment_years >= 3
    THEN IF dtic = "excellent"
         THEN Verdict("approved", "high_excellent_stable", 95)
         ELSE IF RLt(lti, 30)
              THEN Verdict("approved", "high_good_small_loan", 90)
              ELSE Verdict("conditional", "high_good_large_loan", 75)
    ELSE IF credit = "high" /\ dtic = "moderate"
    THEN Verdict("conditional", "high_moderate", 75)
    ELSE IF credit = "medium" /\ dtic \in {"excellent", "good"}
    THEN IF dtic = "excellent" /\ employment_years >= 3
         THEN Verdict("approved", "medium_excellent_stable", 85)
         ELSE IF dtic = "good" /\ RLt(lti, 25)
              THEN Verdict("approved", "medium_good_small_loan", 80)
              ELSE Verdict("conditional", "medium_other", 70)
    ELSE IF credit = "medium" /\ dtic = "moderate"
    THEN Verdict("conditional", "medium_moderate", 65)
    ELSE IF credit = "medium" /\ dtic = "poor"
    THEN Verdict("rejected", "medium_poor", 80)
    ELSE IF credit = "low"
    THEN IF dtic = "excellent" /\ employment_years >= 3
         THEN Verdict("conditional", "low_excellent_stable", 55)
         ELSE IF dtic = "good"
              THEN Verdict("rejected", "low_good", 75)
              ELSE Verdict("rejected", "low_other", 90)
    ELSE IF RGt(lti, 40)
    THEN Verdict("rejected", "loan_too_large", 85)
    ELSE IF employment_years < 1
    THEN Verdict("conditional", "short_employment", 60)
    ELSE Verdict("rejected", "default", 50)

\* PrologEngine._evaluate_fallback: dti and lti with the sentinel 100
EvaluateFallback(a) ==
    LET dti == RatioOr(a.debt_amount, a.annual_income, 100)
        lti == RatioOr(a.loan_amount, a.annual_income, 100)
        credit == GetCreditCategory(a.credit_score)
        dtic == GetDtiCategory(dti)
        v == Cascade(credit, dtic, lti, a.employment_years)
    IN  [result |-> v.result,
         explanation |-> v.explanation,
         confidence |-> v.confidence,
         dti_ratio |-> Round2(dti),
         credit_category |-> credit,
         dti_category |-> dtic,
         evaluation_method |-> "fallback"]

---------------------------------------------------------------------------
(* Built-in validator *)

MsgLoanAmount == "Loan amount must be greater than 0."
MsgAnnualIncome == "Annual income must be greater than 0."
MsgCreditScore == "Credit score must be between 300 and 850."
MsgEmploymentYears == "Employment years cannot be negative."
MsgLoanPurpose == "Please specify the loan purpose."
MsgSystemError == "Validation system error"

\* `if cond: errors.append(msg)`
AppendIf(errors, cond, msg) == IF cond THEN Append(errors, msg) ELSE errors

\* The five checks, each appending to the list the previous ones left
BuiltinErrors(a, loan_purpose) ==
    LET e1 == AppendIf(<<>>, a.loan_amount <= 0, MsgLoanAmount)
        e2 == AppendIf(e1, a.annual_income <= 0, MsgAnnualIncome)
        e3 == AppendIf(e2, a.credit_score < 300 \/ a.credit_score > 850,
                       MsgCreditScore)
        e4 == AppendIf(e3, a.employment_years < 0, MsgEmploymentYears)
        e5 == AppendIf(e4, loan_purpose = <<>> \/ Strip(loan_purpose) = <<>>,
                       MsgLoanPurpose)
    IN  e5

ValidationResult(valid, errors, method) ==
    [valid |-> valid, errors |-> errors, validation_method |-> method]

\* A validator that returns at the first violated check
FirstErrorOnly(a, loan_purpose) ==
    LET e == BuiltinErrors(a, loan_purpose)
    IN  ValidationResult(Len(e) = 0, IF e = <<>> THEN <<>> ELSE <<e[1]>>, "fallback")

NotInitializedErrorsNoStrip(a, loan_purpose) ==
    AppendIf(AppendIf(AppendIf(AppendIf(AppendIf(<<>>,
        a.loan_amount <= 0, MsgLoanAmount),
        a.annual_income <= 0, MsgAnnualIncome),
        a.credit_score < 300 \/ a.credit_score > 850, MsgCreditScore),
        a.employment_years < 0, MsgEmploymentYears),
        loan_purpose = <<>>, MsgLoanPurpose)

\* The five checks written out in the `not self._initialized` branch
NotInitializedErrors(a, loan_purpose) ==
    LET e1 == AppendIf(<<>>, a.loan_amount <= 0, MsgLoanAmount)
        e2 == AppendIf(e1, a.annual_income <= 0, MsgAnnualIncome)
        e3 == AppendIf(e2, a.credit_score < 300 \/ a.credit_score > 850,
                       MsgCreditScore)
        e4 == AppendIf(e3, a.employment_years < 0, MsgEmploymentYears)
        e5 == AppendIf(e4, loan_purpose = <<>> \/ Strip(loan_purpose) = <<>>,
                       MsgLoanPurpose)
    IN  e5

\* PrologEngine.validate_application, the `not self._initialized` branch
ValidateNotInitialized(a, loan_purpose) ==
    LET errors == NotInitializedErrors(a, loan_purpose)
    IN  ValidationResult(Len(errors) = 0, errors, "fallback")

\* PrologEngine._validate_fallback
ValidateFallback(a, loan_purpose) ==
    LET errors == BuiltinErrors(a, loan_purpose)
    IN  ValidationResult(Len(errors) = 0, errors, "fallback")

---------------------------------------------------------------------------
(* The external backend, as seen through pyswip *)

Some(v) == [present |-> TRUE, v |-> v]
Absent == [present |-> FALSE]

\* One binding of a solution dict, or none when the name is not bound
Bind(key, o) == IF o.present THEN key :> o.v ELSE <<>>

\* A value handed to float(): a number (or numeric text), or anything else
Num(n) == [num |-> TRUE, val |-> n]
NotANumber == [num |-> FALSE, val |-> 0]

\* A value compared with 'valid' and tested with isinstance(result, str)
Str(chars) == [str |-> TRUE, chars |-> chars]
NotAStr == [str |-> FALSE, chars |-> <<>>]

\* A Python value that may be None
PyNone == [isNone |-> TRUE, val |-> 0]
PyInt(n) == [isNone |-> FALSE, val |-> n]

NotQueried == [kind |-> "not_queried"]
Raises == [kind |-> "raise"]
NoSolution == [kind |-> "nosol"]
Solution(sol) == [kind |-> "sol", sol |-> sol]

\* What a query evaluate(..., Result, Explanation, Confidence) may do
EvalOutcomes ==
    {Raises, NoSolution} \cup
    { Solution(Bind("Result", r) @@ Bind("Explanation", e) @@ Bind("Confidence", c)) :
        r \in {Absent, Some("approved"), Some("maybe")},
        e \in {Absent, Some("from the rules")},
        c \in {Absent, Some(Num(90)), Some(Num(150)), Some(NotANumber)} }

ValidAtom == <<"v", "a", "l", "i", "d">>
ErrorsPrefix == <<"e", "r", "r", "o", "r", "s", "(">>

\* What a query validate_application(..., Result) may do
ValidateOutcomes ==
    {Raises, NoSolution} \cup
    { Solution(Bind("Result", r)) :
        r \in {Absent, Some(NotAStr), Some(Str(ValidAtom)),
               Some(Str(<<"o", "k">>)),
               Some(Str(ErrorsPrefix)),
               Some(Str(ErrorsPrefix \o <<")">>)),
               Some(Str(ErrorsPrefix \o <<"'", "a", "'", ",", " ", "b", ")">>))} }

\* What a query get_config(Category, Key, Value) may do
ConfigOutcomes ==
    {Raises, NoSolution} \cup
    { Solution(Bind("Value", v)) : v \in {Absent, Some(PyInt(5000))} }

\* What a query validate_config(Category, Key, Value) may do
ValidateConfigOutcomes == {Raises, NoSolution, Solution(<<>>)}

ConfigKeys ==
    <<"min_loan_amount", "max_loan_amount", "min_credit_score", "max_credit_score">>

\* What each get_config query of a get_business_limits call may do
LimitsOutcome == {Raises, NoSolution, Solution("Value" :> PyInt(5000))}

---------------------------------------------------------------------------
(* PrologEngine methods *)

Returned(value) == [raised |-> FALSE, value |-> value]
Raised == [raised |-> TRUE]

\* PrologEngine.__init__
NewEngine == [initialized |-> FALSE, prolog |-> FALSE]

InitOutcomes == {"import_error", "prolog_error", "consult_error", "ok"}

InitializeKeepsModeOnFailure(e, outcome) ==
    IF outcome = "ok" THEN [initialized |-> TRUE, prolog |-> TRUE]
    ELSE IF outcome = "consult_error" THEN [initialized |-> e.initialized, prolog |-> TRUE]
    ELSE e

\* PrologEngine.initialize: the value returned by the attempt `outcome`
InitializeReturns(outcome) == outcome = "ok"

\* PrologEngine.initialize: the engine's fields after the attempt `outcome`
Initialize(e, outcome) ==
    IF outcome = "ok" THEN [initialized |-> TRUE, prolog |-> TRUE]
    ELSE IF outcome = "consult_error" THEN [initialized |-> FALSE, prolog |-> TRUE]
    ELSE [initialized |-> FALSE, prolog |-> e.prolog]

\* The try block of PrologEngine._evaluate_with_prolog
TryEvaluateWithProlog(a, be) ==
    LET dti == RatioOr(a.debt_amount, a.annual_income, 0)
    IN  IF be.kind = "raise" THEN Raised
        ELSE IF be.kind = "sol"
        THEN LET confidence == Get(be.sol, "Confidence", Num(50))
             IN  IF ~confidence.num THEN Raised
                 ELSE Returned(
                        [result |-> Get(be.sol, "Result", "rejected"),
                         explanation |->
                             Get(be.sol, "Explanation", "No explanation available"),
                         confidence |-> confidence.val,
                         dti_ratio |-> Round2(dti),
                         credit_category |-> GetCreditCategory(a.credit_score),
                         dti_category |-> GetDtiCategory(dti),
                         evaluation_method |-> "prolog"])
        ELSE Returned(EvaluateFallback(a))

\* PrologEngine._evaluate_with_prolog
EvaluateWithProlog(a, be) ==
    LET t == TryEvaluateWithProlog(a, be)
    IN  IF t.raised THEN EvaluateFallback(a) ELSE t.value

\* PrologEngine.evaluate_loan
EvaluateLoan(e, a, be) ==
    IF e.initialized /\ e.prolog
    THEN EvaluateWithProlog(a, be)
    ELSE EvaluateFallback(a)

\* The try block of PrologEngine.validate_application
TryValidateWithProlog(e, be) ==
    IF ~e.prolog \/ be.kind = "raise" THEN Raised
    ELSE IF be.kind = "sol"
    THEN IF "Result" \notin DOMAIN be.sol THEN Raised
         ELSE LET result == be.sol["Result"]
              IN  IF result.str /\ result.chars = ValidAtom
                  THEN Returned(ValidationResult(TRUE, <<>>, "prolog"))
                  ELSE IF result.str /\ StartsWith(result.chars, ErrorsPrefix)
                  THEN LET error_list ==
                               IF Len(result.chars) > 7
                               THEN SplitComma(Slice6ToLast(result.chars))
                               ELSE <<>>
                       IN  Returned(ValidationResult(FALSE, CleanErrors(error_list),
                                                     "prolog"))
                  ELSE Returned(ValidationResult(FALSE, <<MsgSystemError>>, "fallback"))
    ELSE Returned(ValidationResult(FALSE, <<MsgSystemError>>, "fallback"))

\* validate_application without its `except Exception` handler
ValidateApplicationNoExcept(e, a, loan_purpose, be) ==
    IF ~e.initialized THEN ValidateNotInitialized(a, loan_purpose)
    ELSE LET t == TryValidateWithProlog(e, be)
         IN  IF t.raised THEN Raised ELSE t.value

\* PrologEngine.validate_application
ValidateApplication(e, a, loan_purpose, be) ==
    IF ~e.initialized THEN ValidateNotInitialized(a, loan_purpose)
    ELSE LET t == TryValidateWithProlog(e, be)
         IN  IF t.raised THEN ValidateFallback(a, loan_purpose) ELSE t.value

\* PrologEngine.get_evaluation_details
GetEvaluationDetails(a) ==
    LET dti == RatioOr(a.debt_amount, a.annual_income, 0)
        lti == RatioOr(a.loan_amount, a.annual_income, 0)
    IN  [credit_score |-> a.credit_score,
         credit_category |-> GetCreditCategory(a.credit_score),
         debt_amount |-> a.debt_amount,
         annual_income |-> a.annual_income,
         dti_ratio |-> Round2(dti),
         dti_category |-> GetDtiCategory(dti),
         loan_amount |-> a.loan_amount,
         loan_to_income_ratio |-> Round2(lti),
         employment_years |-> a.employment_years,
         employment_stability |->
             IF a.employment_years >= 3 THEN "stable"
             ELSE IF a.employment_years >= 1 THEN "moderate" ELSE "unstable"]

\* PrologEngine.get_system_config
GetSystemConfig(e, be) ==
    IF ~e.initialized THEN PyNone
    ELSE IF ~e.prolog \/ be.kind = "raise" THEN PyNone
    ELSE IF be.kind = "sol" THEN Get(be.sol, "Value", PyNone)
    ELSE PyNone

\* PrologEngine.validate_system_config
ValidateSystemConfig(e, be) ==
    IF ~e.initialized THEN TRUE
    ELSE IF ~e.prolog \/ be.kind = "raise" THEN TRUE
    ELSE be.kind = "sol"

\* PrologEngine._get_fallback_limits
GetFallbackLimits ==
    [min_loan_amount |-> PyInt(100),
     max_loan_amount |-> PyInt(1000000),
     min_credit_score |-> PyInt(300),
     max_credit_score |-> PyInt(850)]

\* PrologEngine._get_fallback_limit
GetFallbackLimit(key) == GetFallbackLimits[key]

GetBusinessLimitsAllOrNothing(e, bes) ==
    IF ~e.initialized THEN GetFallbackLimits
    ELSE IF ~e.prolog \/ \E i \in DOMAIN bes : bes[i].kind # "sol"
    THEN GetFallbackLimits
    ELSE [key \in {ConfigKeys[i] : i \in DOMAIN ConfigKeys} |->
            LET i == CHOOSE j \in DOMAIN ConfigKeys : ConfigKeys[j] = key
            IN  Get(bes[i].sol, "Value", PyNone)]

\* PrologEngine.get_business_limits; bes[i] is the outcome of the i-th query
GetBusinessLimits(e, bes) ==
    IF ~e.initialized THEN GetFallbackLimits
    ELSE IF ~e.prolog \/ \E i \in DOMAIN bes : bes[i].kind = "raise"
    THEN GetFallbackLimits
    ELSE [key \in {ConfigKeys[i] : i \in DOMAIN ConfigKeys} |->
            LET i == CHOOSE j \in DOMAIN ConfigKeys : ConfigKeys[j] = key
            IN  IF bes[i].kind = "sol"
                THEN Get(bes[i].sol, "Value", PyNone)
                ELSE GetFallbackLimit(key)]

---------------------------------------------------------------------------
(* Inputs *)

PurposeChars == {" ", "c"}

\* loan_purpose: every string over PurposeChars of at most MaxPurposeLen characters
Purposes == UNION { [1..n -> PurposeChars] : n \in 0..MaxPurposeLen }

EmploymentYears == -1..MaxEmploymentYears

Profile(cs, d, i, ey, l) ==
    [credit_score |-> cs, debt_amount |-> d, annual_income |-> i,
     employment_years |-> ey, loan_amount |-> l]

\* Applications submitted while the whole engine is exercised
Profiles ==
    { Profile(cs, d, i, ey, l) :
        cs \in {299, 300, 850, 851}, d \in {10, 50}, i \in {0, 100},
        ey \in {-1, 0, MaxEmploymentYears}, l \in {0, 20} }

\* Applications on every side of every threshold of the built-in rules
Grid ==
    { Profile(cs, d, i, ey, l) :
        cs \in {-1, 300, 649, 650, 749, 750, 851},
        d \in {14, 15, 29, 30, 42, 43},
        i \in {-100, 0, 100},
        ey \in EmploymentYears,
        l \in {0, 24, 25, 29, 30, 40, 41} }

---------------------------------------------------------------------------
(* State machine *)

NoCall == Call("none", NotQueried, <<>>, PyNone)

\* The engine object the module global refers to
Engine == [initialized |-> initialized, prolog |-> prolog]

NeedsLazyInitOrRetry(global, e) == global = "None" \/ ~e.initialized

\* `if _prolog_engine is None:` of the module-level functions
NeedsLazyInit(global, e) == global = "None"

\* The initialize('') attempts a module-level function may make before its call
LazyOutcomes == IF NeedsLazyInit(prolog_engine, Engine) THEN InitOutcomes ELSE {"skip"}

\* The engine a module-level function calls its method on
ModuleEngine(io) ==
    IF NeedsLazyInit(prolog_engine, Engine) THEN Initialize(NewEngine, io) ELSE Engine

DegradeOnFailure(e, kind) ==
    IF kind \in {"raise", "nosol"} THEN [e EXCEPT !.initialized = FALSE] ELSE e

DropHandleOnFailure(e, kind) ==
    IF kind \in {"raise", "nosol"} THEN [e EXCEPT !.prolog = FALSE] ELSE e

\* The engine's fields after a query: no method but initialize assigns them
AfterEvaluate(e, kind) == e

AfterQuery(e, kind) == e

\* The outcomes of evaluate_loan's query: none when it does not query
QueriedEvaluate(e, outcomes) ==
    IF e.initialized /\ e.prolog THEN outcomes ELSE {NotQueried}

\* The outcomes of another method's query: none when it does not query, and
\* self.prolog.query raises when self.prolog is None
Queried(e, outcomes) ==
    IF ~e.initialized THEN {NotQueried}
    ELSE IF e.prolog THEN outcomes ELSE {Raises}

SetEngine(e) ==
    /\ prolog_engine' = "PrologEngine"
    /\ initialized' = e.initialized
    /\ prolog' = e.prolog

\* No concurrent caller is inside a module-level function
NoThreads ==
    /\ pc = <<>>
    /\ created = <<>>
    /\ attempted = <<>>

\* An empty database and no browser
NoWeb ==
    /\ users = <<>>
    /\ session = <<>>
    /\ applications = <<>>
    /\ history = <<>>

Init ==
    /\ phase = "boot"
    /\ prolog_engine = "None"
    /\ initialized = FALSE
    /\ prolog = FALSE
    /\ req \in Profiles
    /\ last = NoCall
    /\ NoThreads
    /\ NoWeb

\* src/app.py init_prolog at import -> initialize_prolog -> PrologEngine.initialize
InitProlog ==
    /\ phase = "boot"
    /\ \E io \in InitOutcomes :
        LET e0 == IF prolog_engine = "None" THEN NewEngine ELSE Engine
            e == Initialize(e0, io)
        IN  /\ SetEngine(e)
            /\ last' = Call("initialize_prolog", [kind |-> io], <<>>,
                            InitializeReturns(io))
    /\ phase' = "serving"
    /\ UNCHANGED <<req, threadvars, webvars>>

\* module-level evaluate_loan
CallEvaluateLoan ==
    /\ phase = "serving"
    /\ \E io \in LazyOutcomes :
        LET e == ModuleEngine(io)
        IN  \E be \in QueriedEvaluate(e, EvalOutcomes) :
                /\ SetEngine(AfterEvaluate(e, be.kind))
                /\ last' = Call("evaluate_loan", be, <<>>, EvaluateLoan(e, req, be))
    /\ UNCHANGED <<phase, req, threadvars, webvars>>

\* module-level validate_application
CallValidateApplication ==
    /\ phase = "serving"
    /\ \E io \in LazyOutcomes, loan_purpose \in Purposes :
        LET e == ModuleEngine(io)
        IN  \E be \in Queried(e, ValidateOutcomes) :
                /\ SetEngine(AfterQuery(e, be.kind))
                /\ last' = Call("validate_application", be, loan_purpose,
                                ValidateApplication(e, req, loan_purpose, be))
    /\ UNCHANGED <<phase, req, threadvars, webvars>>

\* PrologEngine.get_evaluation_details on the engine object
CallGetEvaluationDetails ==
    /\ phase = "serving"
    /\ prolog_engine = "PrologEngine"
    /\ SetEngine(AfterQuery(Engine, "not_queried"))
    /\ last' = Call("get_evaluation_details", NotQueried, <<>>,
                    GetEvaluationDetails(req))
    /\ UNCHANGED <<phase, req, threadvars, webvars>>

\* module-level get_system_config
CallGetSystemConfig ==
    /\ phase = "serving"
    /\ \E io \in LazyOutcomes :
        LET e == ModuleEngine(io)
        IN  \E be \in Queried(e, ConfigOutcomes) :
                /\ SetEngine(AfterQuery(e, be.kind))
                /\ last' = Call("get_system_config", be, <<>>,
                                GetSystemConfig(e, be))
    /\ UNCHANGED <<phase, req, threadvars, webvars>>

\* module-level validate_system_config
CallValidateSystemConfig ==
    /\ phase = "serving"
    /\ \E io \in LazyOutcomes :
        LET e == ModuleEngine(io)
        IN  \E be \in Queried(e, ValidateConfigOutcomes) :
                /\ SetEngine(AfterQuery(e, be.kind))
                /\ last' = Call("validate_system_config", be, <<>>,
                                ValidateSystemConfig(e, be))
    /\ UNCHANGED <<phase, req, threadvars, webvars>>

\* The first failure among the queries of one get_business_limits call
LimitsKind(bes) ==
    IF \E i \in DOMAIN bes : bes[i].kind = "raise" THEN "raise"
    ELSE IF \E i \in DOMAIN bes : bes[i].kind = "nosol" THEN "nosol"
    ELSE "sol"

\* module-level get_business_limits
CallGetBusinessLimits ==
    /\ phase = "serving"
    /\ \E io \in LazyOutcomes :
        LET e == ModuleEngine(io)
        IN  \E bes \in [1..Len(ConfigKeys) -> Queried(e, LimitsOutcome)] :
                LET kind == IF e.initialized THEN LimitsKind(bes) ELSE "not_queried"
                IN  /\ SetEngine(AfterQuery(e, kind))
                    /\ last' = Call("get_business_limits", [kind |-> kind, each |-> bes], <<>>,
                                    GetBusinessLimits(e, bes))
    /\ UNCHANGED <<phase, req, threadvars, webvars>>

Next ==
    \/ InitProlog
    \/ CallEvaluateLoan
    \/ CallValidateApplication
    \/ CallGetEvaluationDetails
    \/ CallGetSystemConfig
    \/ CallValidateSystemConfig
    \/ CallGetBusinessLimits

\* The web application: boots the engine once, then serves calls
Spec == Init /\ [][Next]_vars

\* An engine as constructed, never initialized, given every profile of Grid
InitBuiltin ==
    /\ phase = "serving"
    /\ prolog_engine = "PrologEngine"
    /\ initialized = NewEngine.initialized
    /\ prolog = NewEngine.prolog
    /\ req \in Grid
    /\ last = NoCall
    /\ NoThreads
    /\ NoWeb

NextBuiltin ==
    \/ CallEvaluateLoan
    \/ CallValidateApplication
    \/ CallGetEvaluationDetails

SpecBuiltin == InitBuiltin /\ [][NextBuiltin]_vars

\* Applications with a negative, a zero and a positive income
IncomeProfiles ==
    { Profile(cs, d, i, ey, l) :
        cs \in {649, 750}, d \in {0, 14, 43}, i \in {-100, 0, 100},
        ey \in {0, MaxEmploymentYears}, l \in {0, 41} }

InitIncome ==
    /\ phase = "boot"
    /\ prolog_engine = "None"
    /\ initialized = FALSE
    /\ prolog = FALSE
    /\ req \in IncomeProfiles
    /\ last = NoCall
    /\ NoThreads
    /\ NoWeb

NextIncome ==
    \/ InitProlog
    \/ CallEvaluateLoan
    \/ CallGetEvaluationDetails

\* The web application booting the engine, then evaluating and showing
\* applications of every sign of income
SpecIncome == InitIncome /\ [][NextIncome]_vars

\* initialize_prolog called again by the host, on the engine that exists
CallInitializeProlog ==
    /\ phase = "serving"
    /\ \E io \in InitOutcomes :
        LET e0 == IF prolog_engine = "None" THEN NewEngine ELSE Engine
        IN  /\ SetEngine(Initialize(e0, io))
            /\ last' = Call("initialize_prolog", [kind |-> io], <<>>,
                            InitializeReturns(io))
    /\ UNCHANGED <<phase, req, threadvars, webvars>>

NextReinit ==
    \/ InitProlog
    \/ CallInitializeProlog
    \/ CallEvaluateLoan
    \/ CallValidateApplication

\* A host that calls initialize_prolog any number of times between calls
SpecReinit == InitIncome /\ [][NextReinit]_vars

---------------------------------------------------------------------------
(* Concurrent callers of the module-level functions: CPython may switch      *)
(* threads between any two statements, and each statement reads the module   *)
(* global _prolog_engine anew                                                *)

Threads == 1..NumCallers

Idle == [at |-> "idle", op |-> "none", engine |-> 0, mode |-> FALSE]

\* A caller at statement `at` of the module-level function `op`
At(at, op) == [at |-> at, op |-> op, engine |-> 0, mode |-> FALSE]

\* A caller that returned: the engine instance it ran on (by order of creation)
\* and the _initialized flag its method read
Done(op, engine, mode) == [at |-> "done", op |-> op, engine |-> engine, mode |-> mode]

ConcurrentProfiles == {Profile(750, 14, 100, 3, 0), Profile(649, 43, 0, 0, 41)}

InitConcurrent ==
    /\ phase = "serving"
    /\ prolog_engine = "None"
    /\ initialized = FALSE
    /\ prolog = FALSE
    /\ req \in ConcurrentProfiles
    /\ last = NoCall
    /\ pc = [t \in Threads |-> Idle]
    /\ created = <<>>
    /\ attempted = <<>>
    /\ NoWeb

\* `if _prolog_engine is None:` of evaluate_loan or validate_application
CheckEngine ==
    /\ \E t \in Threads, op \in {"evaluate_loan", "validate_application"} :
        /\ pc[t].at = "idle"
        /\ pc' = [pc EXCEPT ![t] =
                    IF NeedsLazyInit(prolog_engine, Engine)
                    THEN At("create", op) ELSE At("call", op)]
    /\ UNCHANGED <<phase, prolog_engine, initialized, prolog, req, last,
                   created, attempted, webvars>>

\* `_prolog_engine = PrologEngine()`
CreateEngine ==
    /\ \E t \in Threads :
        /\ pc[t].at = "create"
        /\ SetEngine(NewEngine)
        /\ created' = Append(created, t)
        /\ pc' = [pc EXCEPT ![t] = At("initialize", pc[t].op)]
    /\ UNCHANGED <<phase, req, last, attempted, webvars>>

\* `_prolog_engine.initialize('')`, on the engine the global refers to now
InitializeEngine ==
    /\ \E t \in Threads, io \in InitOutcomes :
        /\ pc[t].at = "initialize"
        /\ SetEngine(Initialize(Engine, io))
        /\ attempted' = Append(attempted, t)
        /\ pc' = [pc EXCEPT ![t] = At("call", pc[t].op)]
    /\ UNCHANGED <<phase, req, last, created, webvars>>

\* `return _prolog_engine.evaluate_loan(...)`
ReturnEvaluateLoan ==
    /\ \E t \in Threads :
        /\ pc[t] = At("call", "evaluate_loan")
        /\ \E be \in QueriedEvaluate(Engine, EvalOutcomes) :
            last' = Call("evaluate_loan", be, <<>>, EvaluateLoan(Engine, req, be))
        /\ pc' = [pc EXCEPT ![t] = Done(pc[t].op, Len(created), initialized)]
    /\ UNCHANGED <<phase, prolog_engine, initialized, prolog, req,
                   created, attempted, webvars>>

\* `return _prolog_engine.validate_application(...)`
ReturnValidateApplication ==
    /\ \E t \in Threads :
        /\ pc[t] = At("call", "validate_application")
        /\ \E be \in Queried(Engine, ValidateOutcomes) :
            last' = Call("validate_application", be, <<"c">>,
                         ValidateApplication(Engine, req, <<"c">>, be))
        /\ pc' = [pc EXCEPT ![t] = Done(pc[t].op, Len(created), initialized)]
    /\ UNCHANGED <<phase, prolog_engine, initialized, prolog, req,
                   created, attempted, webvars>>

NextConcurrent ==
    \/ CheckEngine
    \/ CreateEngine
    \/ InitializeEngine
    \/ ReturnEvaluateLoan
    \/ ReturnValidateApplication

\* A host that imported prolog_engine and calls evaluate_loan and
\* validate_application from NumCallers threads, one call each
SpecConcurrent == InitConcurrent /\ [][NextConcurrent]_vars

---------------------------------------------------------------------------
(* The web host, src/app.py: users, sessions and stored applications *)

Browsers == {"b1", "b2"}

UserIds == 1..MaxUsers

ApplicationIds == 1..MaxApplications

\* An empty Flask session: no 'user_id', and session.get('is_admin') is None
NoSession == [user_id |-> 0, is_admin |-> FALSE]

\* An INTEGER PRIMARY KEY of SQLite: one more than the largest id in use
NextId(ids) ==
    IF ids = {} THEN 1
    ELSE (CHOOSE x \in ids : \A y \in ids : y <= x) + 1

Ids(rows) == {rows[i].id : i \in DOMAIN rows}

\* login_required
LoginRequired(s) == IF s.user_id = 0 THEN "login" ELSE "ok"

AdminRequiredFromSession(s, us) ==
    IF s.user_id = 0 THEN "login"
    ELSE IF ~s.is_admin THEN "denied"
    ELSE "ok"

\* admin_required
AdminRequired(s, us) ==
    IF s.user_id = 0 THEN "login"
    ELSE IF s.user_id \notin DOMAIN us \/ ~us[s.user_id].is_admin THEN "denied"
    ELSE "ok"

\* What a route did: the browser that sent the request, the id or form flag it
\* carried, and the response
Response(b, arg, response) == [browser |-> b, arg |-> arg, response |-> response]

RouteErrorsNoEmployment(a, loan_purpose) ==
    AppendIf(AppendIf(AppendIf(AppendIf(<<>>,
        a.loan_amount <= 0, MsgLoanAmount),
        a.annual_income <= 0, MsgAnnualIncome),
        a.credit_score < 300 \/ a.credit_score > 850, MsgCreditScore),
        Len(loan_purpose) = 0, MsgLoanPurpose)

\* The inline validation of apply_loan, on the trimmed loan_purpose
RouteErrors(a, loan_purpose) ==
    AppendIf(AppendIf(AppendIf(AppendIf(AppendIf(<<>>,
        a.loan_amount <= 0, MsgLoanAmount),
        a.annual_income <= 0, MsgAnnualIncome),
        a.credit_score < 300 \/ a.credit_score > 850, MsgCreditScore),
        a.employment_years < 0, MsgEmploymentYears),
        Len(loan_purpose) = 0, MsgLoanPurpose)

\* get_prolog_engine: the module global after the call, and the value returned
\* (the function ends without a return statement)
GetPrologEngine(global) ==
    [global |-> "PrologEngine", ret |-> PyNone]

\* engine.get_evaluation_details(...) of the two view routes
EngineDetails(engine, a) ==
    IF engine.isNone THEN "AttributeError" ELSE GetEvaluationDetails(a)

\* What the query of an evaluation made for a stored application may do
WebEvalOutcomes ==
    {Raises, NoSolution,
     Solution(Bind("Result", Some("approved")) @@ Bind("Explanation", Some("from the rules"))
              @@ Bind("Confidence", Some(Num(90))))}

ValidProfile == Profile(300, 10, 100, 0, 20)

\* The loan_purpose fields a form posts: empty, blank, plain, padded
FormPurposes == {<<>>, <<" ">>, <<"c">>, <<" ", "c", " ">>}

\* One valid application, and one failing each check
WebProfiles ==
    {ValidProfile, Profile(300, 10, 100, 0, 0),
     Profile(850, 10, 0, 0, 20), Profile(299, 10, 100, 0, 20),
     Profile(851, 10, 100, 0, 20), Profile(300, 10, 100, -1, 20),
     Profile(299, 10, 0, -1, 0)}

\* The application being imported, with an empty database
InitHost(profiles) ==
    /\ phase = "boot"
    /\ prolog_engine = "None"
    /\ initialized = FALSE
    /\ prolog = FALSE
    /\ req \in profiles
    /\ last = NoCall
    /\ NoThreads
    /\ users = <<>>
    /\ session = [b \in Browsers |-> NoSession]
    /\ applications = <<>>
    /\ history = <<>>

\* POST /register; ok: the form passed the checks of lines 96-113
Register ==
    /\ phase = "serving"
    /\ \E ok \in BOOLEAN :
        IF ok
        THEN LET id == NextId(DOMAIN users)
             IN  /\ id <= MaxUsers
                 /\ users' = users @@ (id :> [is_admin |-> DOMAIN users = {}])
                 /\ last' = Call("register", NotQueried, <<>>, "login")
        ELSE /\ users' = users
             /\ last' = Call("register", NotQueried, <<>>, "errors")
    /\ UNCHANGED <<phase, prolog_engine, initialized, prolog, req, threadvars,
                   session, applications, history>>

\* POST /login as user u; ok: the user exists and the password matches
Login ==
    /\ phase = "serving"
    /\ \E b \in Browsers, u \in UserIds, ok \in BOOLEAN :
        IF u \in DOMAIN users /\ ok
        THEN /\ session' = [session EXCEPT ![b] =
                              [user_id |-> u, is_admin |-> users[u].is_admin]]
             /\ last' = Call("login", NotQueried, <<>>, Response(b, u, "dashboard"))
        ELSE /\ session' = session
             /\ last' = Call("login", NotQueried, <<>>, Response(b, u, "invalid"))
    /\ UNCHANGED <<phase, prolog_engine, initialized, prolog, req, threadvars,
                   users, applications, history>>

\* POST /admin/user/<user_id>/toggle-admin
ToggleAdmin ==
    /\ phase = "serving"
    /\ \E b \in Browsers, user_id \in UserIds :
        LET gate == AdminRequired(session[b], users)
        IN  IF gate # "ok"
            THEN /\ users' = users
                 /\ last' = Call("toggle_admin", NotQueried, <<>>, Response(b, user_id, gate))
            ELSE IF user_id = session[b].user_id
            THEN /\ users' = users
                 /\ last' = Call("toggle_admin", NotQueried, <<>>, Response(b, user_id, "own"))
            ELSE IF user_id \notin DOMAIN users
            THEN /\ users' = users
                 /\ last' = Call("toggle_admin", NotQueried, <<>>, Response(b, user_id, "404"))
            ELSE /\ users' = [users EXCEPT ![user_id].is_admin = ~@]
                 /\ last' = Call("toggle_admin", NotQueried, <<>>,
                                 Response(b, user_id, "updated"))
    /\ UNCHANGED <<phase, prolog_engine, initialized, prolog, req, threadvars,
                   session, applications, history>>

\* POST /admin/user/<user_id>/delete
DeleteUser ==
    /\ phase = "serving"
    /\ \E b \in Browsers, user_id \in UserIds :
        LET gate == AdminRequired(session[b], users)
            NotHis(row) == row.user_id # user_id
        IN  IF gate # "ok"
            THEN /\ UNCHANGED <<users, applications>>
                 /\ last' = Call("delete_user", NotQueried, <<>>, Response(b, user_id, gate))
            ELSE IF user_id = session[b].user_id
            THEN /\ UNCHANGED <<users, applications>>
                 /\ last' = Call("delete_user", NotQueried, <<>>, Response(b, user_id, "own"))
            ELSE IF user_id \notin DOMAIN users
            THEN /\ UNCHANGED <<users, applications>>
                 /\ last' = Call("delete_user", NotQueried, <<>>, Response(b, user_id, "404"))
            ELSE /\ applications' = SelectSeq(applications, NotHis)
                 /\ users' = [u \in DOMAIN users \ {user_id} |-> users[u]]
                 /\ last' = Call("delete_user", NotQueried, <<>>,
                                 Response(b, user_id, "deleted"))
    /\ UNCHANGED <<phase, prolog_engine, initialized, prolog, req, threadvars,
                   session, history>>

\* POST /apply with the fields of req; parses: float() and int() accept them
ApplyLoan ==
    /\ phase = "serving"
    /\ \E b \in Browsers, parses \in BOOLEAN, loan_purpose \in FormPurposes :
        IF LoginRequired(session[b]) # "ok"
        THEN /\ UNCHANGED <<prolog_engine, initialized, prolog, applications, history>>
             /\ last' = Call("apply_loan", NotQueried, loan_purpose,
                             Response(b, parses, "login"))
        ELSE IF ~parses
        THEN /\ UNCHANGED <<prolog_engine, initialized, prolog, applications, history>>
             /\ last' = Call("apply_loan", NotQueried, loan_purpose,
                             Response(b, parses, "ValueError"))
        ELSE IF RouteErrors(req, Strip(loan_purpose)) # <<>>
        THEN /\ UNCHANGED <<prolog_engine, initialized, prolog, applications, history>>
             /\ last' = Call("apply_loan", NotQueried, loan_purpose,
                             Response(b, parses, "errors"))
        ELSE \E io \in LazyOutcomes :
             LET e == ModuleEngine(io)
             IN  \E be \in QueriedEvaluate(e, WebEvalOutcomes) :
                 LET evaluation == EvaluateLoan(e, req, be)
                     id == NextId(Ids(applications))
                 IN  /\ Len(history) < MaxApplications
                     /\ SetEngine(AfterEvaluate(e, be.kind))
                     /\ applications' = Append(applications,
                            [id |-> id, user_id |-> session[b].user_id,
                             evaluation_result |-> evaluation.result])
                     /\ history' = Append(history,
                            [application_id |-> id, result |-> evaluation.result])
                     /\ last' = Call("apply_loan", be, loan_purpose,
                                     Response(b, parses, "view_application"))
    /\ UNCHANGED <<phase, req, threadvars, users, session>>

\* The row of table loan_applications with this id, if any
Application(application_id) ==
    {applications[i] : i \in {j \in DOMAIN applications :
                                 applications[j].id = application_id}}

\* GET /application/<application_id>
ViewApplication ==
    /\ phase = "serving"
    /\ \E b \in Browsers, application_id \in ApplicationIds :
        IF LoginRequired(session[b]) # "ok"
        THEN /\ UNCHANGED <<prolog_engine, initialized, prolog>>
             /\ last' = Call("view_application", NotQueried, <<>>,
                             Response(b, application_id, "login"))
        ELSE IF Application(application_id) = {}
        THEN /\ UNCHANGED <<prolog_engine, initialized, prolog>>
             /\ last' = Call("view_application", NotQueried, <<>>,
                             Response(b, application_id, "404"))
        ELSE LET application == CHOOSE row \in Application(application_id) : TRUE
             IN  IF application.user_id # session[b].user_id /\ ~session[b].is_admin
                 THEN /\ UNCHANGED <<prolog_engine, initialized, prolog>>
                      /\ last' = Call("view_application", NotQueried, <<>>,
                                      Response(b, application_id, "denied"))
                 ELSE LET g == GetPrologEngine(prolog_engine)
                      IN  /\ prolog_engine' = g.global
                          /\ UNCHANGED <<initialized, prolog>>
                          /\ last' = Call("view_application", NotQueried, <<>>,
                                          Response(b, application_id,
                                                   EngineDetails(g.ret, req)))
    /\ UNCHANGED <<phase, req, threadvars, webvars>>

\* GET /admin/application/<application_id>
AdminViewApplication ==
    /\ phase = "serving"
    /\ \E b \in Browsers, application_id \in ApplicationIds :
        LET gate == AdminRequired(session[b], users)
        IN  IF gate # "ok"
            THEN /\ UNCHANGED <<prolog_engine, initialized, prolog>>
                 /\ last' = Call("admin_view_application", NotQueried, <<>>,
                                 Response(b, application_id, gate))
            ELSE IF Application(application_id) = {}
            THEN /\ UNCHANGED <<prolog_engine, initialized, prolog>>
                 /\ last' = Call("admin_view_application", NotQueried, <<>>,
                                 Response(b, application_id, "404"))
            ELSE LET g == GetPrologEngine(prolog_engine)
                 IN  /\ prolog_engine' = g.global
                     /\ UNCHANGED <<initialized, prolog>>
                     /\ last' = Call("admin_view_application", NotQueried, <<>>,
                                     Response(b, application_id,
                                              EngineDetails(g.ret, req)))
    /\ UNCHANGED <<phase, req, threadvars, webvars>>

\* get_prolog_engine(), as the view routes call it
CallGetPrologEngine ==
    /\ phase = "serving"
    /\ LET g == GetPrologEngine(prolog_engine)
       IN  /\ prolog_engine' = g.global
           /\ last' = Call("get_prolog_engine", NotQueried, <<>>, g.ret)
    /\ UNCHANGED <<phase, initialized, prolog, req, threadvars, webvars>>

NextWeb ==
    \/ InitProlog
    \/ Register
    \/ Login
    \/ ToggleAdmin
    \/ DeleteUser
    \/ ApplyLoan
    \/ ViewApplication
    \/ AdminViewApplication
    \/ CallGetPrologEngine

InitWeb == InitHost({ValidProfile})

\* The web application: boots the engine, then serves its routes one request
\* at a time
SpecWeb == InitWeb /\ [][NextWeb]_vars

InitAdmin == InitHost({ValidProfile})

NextAdmin ==
    \/ InitProlog
    \/ Register
    \/ Login
    \/ ToggleAdmin
    \/ DeleteUser

\* The requests that write table users, one at a time
SpecAdmin == InitAdmin /\ [][NextAdmin]_vars

InitApply == InitHost(WebProfiles)

NextApply ==
    \/ InitProlog
    \/ Register
    \/ Login
    \/ ApplyLoan

\* Users registering, logging in and applying for loans, one request at a time
SpecApply == InitApply /\ [][NextApply]_vars

---------------------------------------------------------------------------
(* Properties *)

EvaluationKeys ==
    {"result", "explanation", "confidence", "dti_ratio", "credit_category",
     "dti_category", "evaluation_method"}

ValidationKeys == {"valid", "errors", "validation_method"}

\* The thresholds of the rules, on the raw inputs (income <= 0: ratio 100)
DecisionDtiLt(a, k) ==
    IF a.annual_income > 0 THEN a.debt_amount * 100 < k * a.annual_income ELSE 100 < k

DecisionLtiLt(a, k) ==
    IF a.annual_income > 0 THEN a.loan_amount * 100 < k * a.annual_income ELSE 100 < k

DecisionLtiGt(a, k) ==
    IF a.annual_income > 0 THEN a.loan_amount * 100 > k * a.annual_income ELSE 100 > k

HighCredit(a) == a.credit_score >= 750
MediumCredit(a) == a.credit_score >= 650 /\ a.credit_score < 750
LowCredit(a) == a.credit_score < 650
ExcellentDti(a) == DecisionDtiLt(a, 15)
GoodDti(a) == ~DecisionDtiLt(a, 15) /\ DecisionDtiLt(a, 30)
ModerateDti(a) == ~DecisionDtiLt(a, 30) /\ DecisionDtiLt(a, 43)
PoorDti(a) == ~DecisionDtiLt(a, 43)

\* The guard of rule i of the priority list
RuleGuard(i, a) ==
    CASE i = 1 -> HighCredit(a) /\ (ExcellentDti(a) \/ GoodDti(a))
                  /\ a.employment_years >= 3
      [] i = 2 -> HighCredit(a) /\ ModerateDti(a)
      [] i = 3 -> MediumCredit(a) /\ (ExcellentDti(a) \/ GoodDti(a))
      [] i = 4 -> MediumCredit(a) /\ ModerateDti(a)
      [] i = 5 -> MediumCredit(a) /\ PoorDti(a)
      [] i = 6 -> LowCredit(a)
      [] i = 7 -> DecisionLtiGt(a, 40)
      [] i = 8 -> a.employment_years < 1
      [] OTHER -> TRUE

\* The <<outcome, confidence>> of rule i of the priority list
RuleOutput(i, a) ==
    CASE i = 1 -> IF ExcellentDti(a) THEN <<"approved", 95>>
                  ELSE IF DecisionLtiLt(a, 30) THEN <<"approved", 90>>
                  ELSE <<"conditional", 75>>
      [] i = 2 -> <<"conditional", 75>>
      [] i = 3 -> IF ExcellentDti(a) /\ a.employment_years >= 3 THEN <<"approved", 85>>
                  ELSE IF GoodDti(a) /\ DecisionLtiLt(a, 25) THEN <<"approved", 80>>
                  ELSE <<"conditional", 70>>
      [] i = 4 -> <<"conditional", 65>>
      [] i = 5 -> <<"rejected", 80>>
      [] i = 6 -> IF ExcellentDti(a) /\ a.employment_years >= 3 THEN <<"conditional", 55>>
                  ELSE IF GoodDti(a) THEN <<"rejected", 75>>
                  ELSE <<"rejected", 90>>
      [] i = 7 -> <<"rejected", 85>>
      [] i = 8 -> <<"conditional", 60>>
      [] OTHER -> <<"rejected", 50>>

FirstRule(a) == CHOOSE i \in 1..9 : RuleGuard(i, a) /\ \A j \in 1..(i - 1) : ~RuleGuard(j, a)

ServedByFallbackEvaluator ==
    last.op = "evaluate_loan" /\ last.ret.evaluation_method = "fallback"

\* C1: when the built-in evaluator serves evaluate_loan, the outcome and the
\* confidence returned are those of the first rule, in the priority order 1-9,
\* whose guard holds for the inputs; no later rule's output is returned when an
\* earlier guard holds.
C1_FirstMatchWins ==
    ServedByFallbackEvaluator =>
        /\ <<last.ret.result, last.ret.confidence>> = RuleOutput(FirstRule(req), req)
        /\ (HighCredit(req) /\ ExcellentDti(req) /\ req.employment_years >= 3)
            => <<last.ret.result, last.ret.confidence>> = <<"approved", 95>>
        /\ (MediumCredit(req) /\ ModerateDti(req))
            => <<last.ret.result, last.ret.confidence>> = <<"conditional", 65>>
        /\ (HighCredit(req) /\ PoorDti(req) /\ DecisionLtiGt(req, 40))
            => <<last.ret.result, last.ret.confidence>> = <<"rejected", 85>>

\* A profile matching rule 1 and the guards of rules 7 and 9 gets rule 1's output
C1_Witness ==
    /\ ServedByFallbackEvaluator
    /\ RuleGuard(1, req) /\ RuleGuard(7, req)
    /\ GoodDti(req)
    /\ <<last.ret.result, last.ret.confidence>> = <<"conditional", 75>>

\* The error messages of the violated checks, in the order of the checks
Blank(loan_purpose) == \A i \in DOMAIN loan_purpose : loan_purpose[i] = " "

Violated(msg, a, loan_purpose) ==
    CASE msg = MsgLoanAmount -> ~(a.loan_amount > 0)
      [] msg = MsgAnnualIncome -> ~(a.annual_income > 0)
      [] msg = MsgCreditScore -> ~(300 <= a.credit_score /\ a.credit_score <= 850)
      [] msg = MsgEmploymentYears -> ~(a.employment_years >= 0)
      [] msg = MsgLoanPurpose -> Blank(loan_purpose)

ExpectedErrors(a, loan_purpose) ==
    LET checks == <<MsgLoanAmount, MsgAnnualIncome, MsgCreditScore,
                    MsgEmploymentYears, MsgLoanPurpose>>
        Test(msg) == Violated(msg, a, loan_purpose)
    IN  SelectSeq(checks, Test)

\* validate_application ran the built-in checks: the engine was not initialized,
\* or the query raised, or the solution had no Result
ServedByBuiltinValidator ==
    /\ last.op = "validate_application"
    /\ \/ last.be.kind \in {"not_queried", "raise"}
       \/ last.be.kind = "sol" /\ "Result" \notin DOMAIN last.be.sol

\* C3: the built-in validator does not stop at the first failure: the errors
\* list holds exactly one message per violated check, in the order of the checks.
C3_ValidatorAccumulates ==
    ServedByBuiltinValidator =>
        last.ret.errors = ExpectedErrors(req, last.purpose)

\* Three checks are violated and three messages are returned
C3_Witness ==
    /\ ServedByBuiltinValidator
    /\ Len(ExpectedErrors(req, last.purpose)) = 3
    /\ Len(last.ret.errors) = 3

\* C4: the credit categorizer is total with the boundaries on the higher
\* category: high iff score >= 750, medium iff 650 <= score < 750, low iff
\* score < 650, for every integer score.
C4_CreditCategoryBoundaries ==
    last.op = "get_evaluation_details" =>
        /\ last.ret.credit_category \in {"high", "medium", "low"}
        /\ last.ret.credit_category = "high" <=> req.credit_score >= 750
        /\ last.ret.credit_category = "medium"
            <=> (650 <= req.credit_score /\ req.credit_score < 750)
        /\ last.ret.credit_category = "low" <=> req.credit_score < 650

\* The score 750 is categorized high
C4_Witness ==
    /\ last.op = "get_evaluation_details"
    /\ req.credit_score = 750
    /\ last.ret.credit_category = "high"

\* The ratio get_evaluation_details hands to the categorizer
DetailsDti == RatioOr(req.debt_amount, req.annual_income, 0)

\* C5: the DTI categorizer is total with the boundaries on the worse category:
\* excellent iff dti < 15, good iff 15 <= dti < 30, moderate iff 30 <= dti < 43,
\* poor iff dti >= 43.
C5_DtiCategoryBoundaries ==
    last.op = "get_evaluation_details" =>
        LET num == DetailsDti[1]
            den == DetailsDti[2]
            c == last.ret.dti_category
        IN  /\ c \in {"excellent", "good", "moderate", "poor"}
            /\ c = "excellent" <=> num < 15 * den
            /\ c = "good" <=> (15 * den <= num /\ num < 30 * den)
            /\ c = "moderate" <=> (30 * den <= num /\ num < 43 * den)
            /\ c = "poor" <=> num >= 43 * den

\* The ratio 43 is categorized poor
C5_Witness ==
    /\ last.op = "get_evaluation_details"
    /\ DetailsDti[1] = 43 * DetailsDti[2]
    /\ last.ret.dti_category = "poor"

\* The built-in evaluator's decision and the built-in validator's verdict
BuiltinDecision(a) == RuleOutput(FirstRule(a), a)

BuiltinVerdict(a, loan_purpose) ==
    ValidationResult(ExpectedErrors(a, loan_purpose) = <<>>,
                     ExpectedErrors(a, loan_purpose), "fallback")

\* The backend was not loaded, or the query raised
BackendUnavailable == last.be.kind \in {"not_queried", "raise"}

\* C2: every evaluate_loan and validate_application call, in either mode and
\* whatever the backend does, returns a structured result, never an exception;
\* when the backend is unavailable the caller gets the built-in result, tagged
\* 'fallback', and nothing else tells of it.
C2_AlwaysStructuredResult ==
    /\ last.op = "evaluate_loan" =>
        /\ DOMAIN last.ret = EvaluationKeys
        /\ BackendUnavailable =>
            /\ last.ret.evaluation_method = "fallback"
            /\ <<last.ret.result, last.ret.confidence>> = BuiltinDecision(req)
    /\ last.op = "validate_application" =>
        /\ DOMAIN last.ret = ValidationKeys
        /\ BackendUnavailable => last.ret = BuiltinVerdict(req, last.purpose)

\* A validation query raised while the engine was Ready, and the caller got the
\* built-in verdict
C2_Witness ==
    /\ initialized
    /\ last.op = "validate_application"
    /\ last.be.kind = "raise"
    /\ last.ret = BuiltinVerdict(req, last.purpose)

FallbackOnly == prolog_engine = "PrologEngine" /\ ~initialized

\* C6: once initialization has failed, every later evaluate_loan call reports
\* evaluation_method 'fallback', every later validate_application call reports
\* validation_method 'fallback', and the mode never returns to Ready.
C6_FallbackOnlyIsPermanent ==
    [][FallbackOnly =>
        /\ FallbackOnly'
        /\ last'.op = "evaluate_loan" => last'.ret.evaluation_method = "fallback"
        /\ last'.op = "validate_application"
            => last'.ret.validation_method = "fallback"]_vars

\* Initialization failed after the Prolog handle was created, and a later
\* validate_application call reported 'fallback'
C6_Witness ==
    /\ FallbackOnly
    /\ prolog
    /\ last.op = "validate_application"
    /\ last.ret.validation_method = "fallback"

\* C7: while Ready, a validate_application call whose query returns no
\* solution is served by the built-in validator: valid and errors are what the
\* five checks give, tagged 'fallback'.
C7_NoSolutionServedByBuiltin ==
    (initialized /\ last.op = "validate_application" /\ last.be.kind = "nosol")
        => last.ret = BuiltinVerdict(req, last.purpose)

Ready == prolog_engine = "PrologEngine" /\ initialized /\ prolog

ConfidenceConverts(be) == Get(be.sol, "Confidence", Num(50)).num

\* C8 as stated: while Ready, an evaluate_loan call whose query fails is served
\* by the built-in evaluator for that call only; the next call queries the
\* backend again and a solution is tagged 'prolog'.
C8_SolutionAlwaysTaggedProlog ==
    [][(Ready /\ last'.op = "evaluate_loan") =>
        /\ last'.be.kind # "not_queried"
        /\ last'.be.kind \in {"raise", "nosol"}
            => last'.ret.evaluation_method = "fallback" /\ Ready'
        /\ last'.be.kind = "sol" => last'.ret.evaluation_method = "prolog"]_vars

\* C8 (amended): while Ready, every evaluate_loan call queries the backend; a
\* call whose query raises or has no solution is served by the built-in
\* evaluator and leaves the engine Ready, so the following call queries again;
\* a solution is tagged 'prolog' exactly when its Confidence converts to a float,
\* and is served by the built-in evaluator otherwise.
C8_FallbackForThatCallOnly ==
    [][(Ready /\ last'.op = "evaluate_loan") =>
        /\ last'.be.kind # "not_queried"
        /\ last'.be.kind \in {"raise", "nosol"}
            => last'.ret.evaluation_method = "fallback" /\ Ready'
        /\ last'.be.kind = "sol" =>
            /\ last'.ret.evaluation_method = "prolog" <=> ConfidenceConverts(last'.be)
            /\ last'.ret.evaluation_method = "fallback" <=> ~ConfidenceConverts(last'.be)]_vars

\* A Ready engine has just served a call from the built-in evaluator because
\* the query had no solution
C8_Witness ==
    /\ Ready
    /\ last.op = "evaluate_loan"
    /\ last.be.kind = "nosol"
    /\ last.ret.evaluation_method = "fallback"

\* C9: no evaluate_loan, validate_application, get_business_limits,
\* get_system_config, validate_system_config or get_evaluation_details call
\* changes _initialized, whatever its query does; only initialization writes it.
C9_ModeWrittenOnlyByInitialize ==
    [][(prolog_engine = "PrologEngine" /\ last'.op # "initialize_prolog")
        => initialized' = initialized]_vars

\* A Ready engine after a get_business_limits call one of whose queries raised
C9_Witness ==
    /\ Ready
    /\ last.op = "get_business_limits"
    /\ last.be.kind = "raise"

\* C10: in every result of validate_application, valid is true iff the errors
\* list is empty.
C10_ValidIffNoErrors ==
    last.op = "validate_application"
        => (last.ret.valid <=> Len(last.ret.errors) = 0)

\* C11: for annual_income = 0 the built-in evaluator takes dti = 100 without
\* dividing, so the dti_ratio it returns is 100.00 and the dti_category is poor
\* whatever debt_amount is.
C11_ZeroIncomeIsPoor ==
    (ServedByFallbackEvaluator /\ req.annual_income = 0) =>
        /\ last.ret.dti_ratio = 100 * 100
        /\ last.ret.dti_category = "poor"

\* The built-in evaluator served a zero-income profile whose debt is the smallest
C11_Witness ==
    /\ ServedByFallbackEvaluator
    /\ req.annual_income = 0
    /\ req.debt_amount = 14
    /\ last.ret.dti_category = "poor"

\* C12: every result of evaluate_loan, whichever evaluator served the call and
\* whatever the backend bound, has exactly the seven fields, a result among
\* approved, conditional and rejected, and a confidence between 0 and 100.
C12_ResultFieldsInRange ==
    last.op = "evaluate_loan" =>
        /\ DOMAIN last.ret = EvaluationKeys
        /\ last.ret.result \in {"approved", "conditional", "rejected"}
        /\ last.ret.confidence >= 0
        /\ last.ret.confidence <= 100

\* evaluate_loan was served by the external backend
ServedByProlog ==
    last.op = "evaluate_loan" /\ last.ret.evaluation_method = "prolog"

\* C13: when annual_income <= 0, a result served by the external backend has
\* dti_ratio 0 and dti_category excellent, and get_evaluation_details reports
\* dti_ratio 0, loan_to_income_ratio 0 and dti_category excellent, for every
\* debt_amount and loan_amount.
C13_NonPositiveIncomeIsExcellent ==
    req.annual_income <= 0 =>
        /\ ServedByProlog =>
            /\ last.ret.dti_ratio = 0
            /\ last.ret.dti_category = "excellent"
        /\ last.op = "get_evaluation_details" =>
            /\ last.ret.dti_ratio = 0
            /\ last.ret.loan_to_income_ratio = 0
            /\ last.ret.dti_category = "excellent"

\* The external backend served a profile of negative income and large debt
C13_Witness ==
    /\ ServedByProlog
    /\ req.annual_income < 0
    /\ req.debt_amount = 43
    /\ last.ret.dti_category = "excellent"

\* The fixed table of limits, by position of the key in config_keys
FixedLimit(i) == <<100, 1000000, 300, 850>>[i]

\* C14: get_business_limits returns exactly the four keys; when the engine is
\* not initialized or a query raises, the fixed table (100, 1000000, 300, 850);
\* otherwise each key has the value its own query of this call bound, and the
\* fixed value where that query had no solution. Nothing of an earlier call is
\* reused.
C14_BusinessLimits ==
    last.op = "get_business_limits" =>
        /\ DOMAIN last.ret =
              {"min_loan_amount", "max_loan_amount", "min_credit_score",
               "max_credit_score"}
        /\ FallbackOnly => last.be.kind = "not_queried"
        /\ \A i \in 1..4 :
              last.ret[ConfigKeys[i]] =
                  IF last.be.kind \in {"not_queried", "raise"}
                  THEN [isNone |-> FALSE, val |-> FixedLimit(i)]
                  ELSE IF last.be.each[i].kind = "sol"
                  THEN last.be.each[i].sol["Value"]
                  ELSE [isNone |-> FALSE, val |-> FixedLimit(i)]

\* A Ready engine whose first query had no solution and whose others had one
C14_Witness ==
    /\ Ready
    /\ last.op = "get_business_limits"
    /\ last.be.each[1].kind = "nosol"
    /\ \A i \in 2..4 : last.be.each[i].kind = "sol"
    /\ last.ret["min_loan_amount"].val = 100
    /\ last.ret["max_loan_amount"].val = 5000

\* C15: under any interleaving of concurrent module-level calls, first calls
\* included, one engine instance is created, initialize is attempted at most
\* once, and all the callers ran on the same engine in the same mode.
C15_OneEngineOneAttempt ==
    /\ Len(created) <= 1
    /\ Len(attempted) <= 1
    /\ \A t1 \in DOMAIN pc, t2 \in DOMAIN pc :
        (pc[t1].at = "done" /\ pc[t2].at = "done") =>
            /\ pc[t1].engine = pc[t2].engine
            /\ pc[t1].mode = pc[t2].mode

\* C16: get_prolog_engine() never returns None, so the view routes can call
\* get_evaluation_details on what it returns.
C16_EngineNeverNone ==
    /\ last.op = "get_prolog_engine" => ~last.ret.isNone
    /\ last.op \in {"view_application", "admin_view_application"}
        => last.ret.response # "AttributeError"

\* view_application let the request past its access check
ViewGranted ==
    /\ last.op = "view_application"
    /\ last.ret.response \notin {"login", "404", "denied"}

AnAdminExists(us) == \E u \in DOMAIN us : us[u].is_admin

\* C18: over register, toggle_admin and delete_user requests served one at a
\* time, once a user with is_admin = true exists one always exists; a toggle or
\* a delete that takes effect was requested by a user who is an admin in table
\* users, stays one, and is not the user it acts on.
C18_AnAdminAlwaysExists ==
    [][/\ AnAdminExists(users) => AnAdminExists(users')
       /\ (last'.op \in {"toggle_admin", "delete_user"}
            /\ last'.ret.response \in {"updated", "deleted"}) =>
            LET user_id == session[last'.ret.browser].user_id
            IN  /\ user_id \in DOMAIN users /\ users[user_id].is_admin
                /\ user_id \in DOMAIN users' /\ users'[user_id].is_admin
                /\ last'.ret.arg # user_id]_vars

\* An admin has just demoted another admin
C18_Witness ==
    /\ last.op = "toggle_admin"
    /\ last.ret.response = "updated"
    /\ ~users[last.ret.arg].is_admin
    /\ AnAdminExists(users)

\* The five input checks of apply_loan, on the raw form fields
ChecksPass(a, loan_purpose) ==
    /\ a.loan_amount > 0
    /\ a.annual_income > 0
    /\ a.credit_score >= 300 /\ a.credit_score <= 850
    /\ a.employment_years >= 0
    /\ ~Blank(loan_purpose)

\* C19: apply_loan evaluates and adds one LoanApplication row and one
\* EvaluationHistory row when the form parses and all five checks pass (the
\* user being logged in); when a check fails or a field does not parse it adds
\* no row and leaves the stored data unchanged.
C19_PersistsOnlyWhenValid ==
    [][last'.op = "apply_loan" =>
        LET r == last'.ret
            user_id == session[r.browser].user_id
        IN  IF user_id # 0 /\ r.arg /\ ChecksPass(req, last'.purpose)
            THEN /\ r.response = "view_application"
                 /\ Len(applications') = Len(applications) + 1
                 /\ SubSeq(applications', 1, Len(applications)) = applications
                 /\ applications'[Len(applications')].user_id = user_id
                 /\ Len(history') = Len(history) + 1
                 /\ SubSeq(history', 1, Len(history)) = history
            ELSE /\ r.response # "view_application"
                 /\ applications' = applications
                 /\ history' = history
                 /\ users' = users]_vars

\* A form with a blank loan_purpose was refused while an application is stored
C19_Witness ==
    /\ last.op = "apply_loan"
    /\ last.ret.response = "errors"
    /\ last.ret.arg
    /\ Len(applications) > 0
    /\ Len(history) = Len(applications)

\* C20: after every call of initialize, repeated ones on an existing engine
\* included, _initialized is true iff the call returned True: a failed attempt
\* leaves a Ready engine in fallback mode and a successful one makes a fallback
\* engine Ready.
C20_ModeIsLatestAttempt ==
    [][last'.op = "initialize_prolog" =>
        /\ initialized' = last'.ret
        /\ (Ready /\ ~last'.ret) => FallbackOnly'
        /\ (FallbackOnly /\ last'.ret) => Ready']_vars

\* A repeated attempt failed before creating a handle, on an engine that had one
C20_Witness ==
    /\ last.op = "initialize_prolog"
    /\ last.be.kind \in {"import_error", "prolog_error"}
    /\ ~last.ret
    /\ prolog
    /\ FallbackOnly

---------------------------------------------------------------------------
(* The three validators on the same input *)

MsgInvalidInput == "Invalid input"

\* Applications on both sides of every bound the validators test
ValidatorProfiles ==
    { Profile(cs, 10, i, ey, l) :
        cs \in {299, 300, 850, 851}, i \in {-100, 0, 100},
        ey \in {-1, 0, MaxEmploymentYears}, l \in {-20, 0, 20} }

InitValidators ==
    /\ phase = "boot"
    /\ prolog_engine = "None"
    /\ initialized = FALSE
    /\ prolog = FALSE
    /\ req \in ValidatorProfiles
    /\ last = NoCall
    /\ NoThreads
    /\ NoWeb

\* A logged-in user's POST /apply up to the return that follows the inline
\* validation: the fields are parsed, loan_purpose is trimmed, the checks run
\* and the messages are flashed; ret.errors is the list flashed
ApplyLoanValidation ==
    /\ phase = "serving"
    /\ \E parses \in BOOLEAN, loan_purpose \in Purposes :
        LET errors == IF parses THEN RouteErrors(req, Strip(loan_purpose))
                      ELSE <<MsgInvalidInput>>
        IN  last' = Call("apply_loan_validation", NotQueried, loan_purpose,
                         [parsed |-> parses, errors |-> errors])
    /\ UNCHANGED <<phase, prolog_engine, initialized, prolog, req, threadvars, webvars>>

NextValidators ==
    \/ InitProlog
    \/ CallValidateApplication
    \/ ApplyLoanValidation

SpecValidators == InitValidators /\ [][NextValidators]_vars

\* C21: on every input the inline validation of apply_loan, the
\* not-initialized branch of validate_application and _validate_fallback give
\* the same error messages in the same order, hence the same validity.
C21_ValidatorsAgree ==
    /\ (last.op = "apply_loan_validation" /\ last.ret.parsed) =>
            /\ last.ret.errors = ValidateNotInitialized(req, last.purpose).errors
            /\ last.ret.errors = ValidateFallback(req, last.purpose).errors
            /\ (last.ret.errors = <<>>) = ValidateNotInitialized(req, last.purpose).valid
            /\ (last.ret.errors = <<>>) = ValidateFallback(req, last.purpose).valid
    /\ ServedByBuiltinValidator =>
            /\ last.ret.errors = RouteErrors(req, Strip(last.purpose))
            /\ last.ret.valid = (RouteErrors(req, Strip(last.purpose)) = <<>>)
            /\ last.ret = ValidateNotInitialized(req, last.purpose)
            /\ last.ret = ValidateFallback(req, last.purpose)

\* The route rejected a loan_purpose made of blanks only, with other errors, and
\* the engine's validators reject it with the same list
C21_Witness ==
    /\ last.op = "apply_loan_validation"
    /\ last.ret.parsed
    /\ last.purpose # <<>>
    /\ Blank(last.purpose)
    /\ Len(last.ret.errors) >= 3
    /\ last.ret.errors = ValidateFallback(req, last.purpose).errors

=============================================================================
